---- MODULE Spec2Model ----
(***************************************************************************)
(* A model of scripts/release.py, the release driver of Open Image         *)
(* Denoise: dependency provisioning, the clean build, packaging, the       *)
(* symbol version check, signing and repacking.                            *)
(*                                                                         *)
(* File names are sequences of their dot-separated pieces                  *)
(* ("oidn-1.tar.gz" is <<"oidn-1", "tar", "gz">>) so that the suffix       *)
(* tests of the script are computed, and a path is the sequence of the     *)
(* names below the root directory.  The file system is a function from     *)
(* the paths that exist to their kind; the members of every archive file   *)
(* are kept in content.                                                    *)
(***************************************************************************)
EXTENDS Naturals, Sequences, FiniteSets, TLC

VARIABLES
    OS,                 \* platform.system(), mapped (line 79)
    fs,                 \* the file system: path -> kind
    content,            \* archive file path -> its members (member path -> kind)
    fs0,                \* the file system when the run (or the scenario) began
    content0,           \* the archives when the run (or the scenario) began
    cfg,                \* the parsed arguments and the environment of the run
    pc,                 \* the position of main()
    log,                \* what the run has done so far, in order
    binaries,           \* main's list of binaries
    i,                  \* the index of the loop over binaries in progress
    package_filename,   \* main's package_filename
    package_dir,        \* main's package_dir
    tbb_root,           \* main's tbb_root
    ispc_executable,    \* main's ispc_executable
    nmOf,               \* binary name -> the versioned symbols nm lists for it
    symNm,              \* the symbols nm prints for the binary under check
    symLabel,           \* check_symbols: label
    symPos,             \* check_symbols: the lines read so far
    symStatus,          \* check_symbols: "running", "passed" or "raised"
    aFile,              \* archive scenario: the archive's file name
    aOut,               \* archive scenario: output_dir
    aPc,                \* archive scenario: position
    aErr                \* archive scenario: the exception raised, if any

vars == <<OS, fs, content, fs0, content0, cfg, pc, log, binaries, i, package_filename,
          package_dir, tbb_root, ispc_executable, nmOf, symNm, symLabel, symPos,
          symStatus, aFile, aOut, aPc, aErr>>

mainVars == <<OS, cfg, pc, log, binaries, i, package_filename, package_dir,
              tbb_root, ispc_executable, nmOf>>
symVars == <<symNm, symLabel, symPos, symStatus>>
archVars == <<aFile, aOut, aPc, aErr>>
fsVars == <<fs, content, fs0, content0>>

-----------------------------------------------------------------------------
(* Paths                                                                   *)

Root == << >>

\* A name without a dot.
N(s) == <<s>>

IsPrefix(p, q) == Len(p) <= Len(q) /\ SubSeq(q, 1, Len(p)) = p

\* os.path.join(dir, name)
Join(dir, name) == Append(dir, name)

\* os.path.basename and os.path.dirname of a path without a trailing slash.
Basename(p) == p[Len(p)]
Dirname(p) == SubSeq(p, 1, Len(p) - 1)

\* The proper ancestors of a path, root included.
Ancestors(p) == {SubSeq(p, 1, k) : k \in 0..(Len(p) - 1)}

AllAncestors(S) == UNION {Ancestors(p) : p \in S}

\* os.path.commonpath of a non-empty set of relative paths: the longest
\* sequence of names every path begins with.
CommonPath(S) ==
    LET p == CHOOSE m \in S : TRUE
        common == {k \in 0..Len(p) : \A q \in S : IsPrefix(SubSeq(p, 1, k), q)}
        n == CHOOSE k \in common : \A j \in common : j <= k
    IN  SubSeq(p, 1, n)

Merge(f, g) ==
    [p \in (DOMAIN f) \cup (DOMAIN g) |-> IF p \in DOMAIN g THEN g[p] ELSE f[p]]

Without(f, S) == [p \in (DOMAIN f) \ S |-> f[p]]

\* The paths at or below dir.
Under(f, dir) == {p \in DOMAIN f : IsPrefix(dir, p)}

isdir(f, p) == p \in DOMAIN f /\ f[p] = "dir"
islink(f, p) == p \in DOMAIN f /\ f[p] = "link"
\* os.path.isfile follows links; every link of the model points at a file.
isfile(f, p) == p \in DOMAIN f /\ f[p] \in {"file", "signed", "link"}

\* os.makedirs(p): p and its missing parents become directories.
makedirs(f, p) ==
    Merge([q \in (Ancestors(p) \cup {p}) |-> "dir"], f)

\* rmtree that removes nothing.
rmtreeKeeps(f, p) == f

\* shutil.rmtree(p)
rmtree(f, p) == Without(f, Under(f, p))

-----------------------------------------------------------------------------
(* Archive Handler                                                         *)

\* re.search(r'(\.tar(\..+)?|tgz)$', filename) over the whole path string:
\* a piece "tar" after a dot, either the last of the string or followed by
\* further pieces of the same name; or a string that ends in "tgz".
IsTarName(filename) ==
    \/ \E j \in 1..Len(filename) : \E k \in 2..Len(filename[j]) :
          /\ filename[j][k] = "tar"
          /\ (k < Len(filename[j]) \/ j = Len(filename))
    \/ /\ Len(filename) > 0
       /\ Basename(filename)[Len(Basename(filename))] = "tgz"

\* filename.endswith('.zip')
IsZipName(filename) ==
    /\ Len(filename) > 0
    /\ Len(Basename(filename)) >= 2
    /\ Basename(filename)[Len(Basename(filename))] = "zip"

\* filename.endswith('.tar.gz')
IsTarGzName(filename) ==
    /\ Len(filename) > 0
    /\ Len(Basename(filename)) >= 3
    /\ SubSeq(Basename(filename), Len(Basename(filename)) - 1,
              Len(Basename(filename))) = <<"tar", "gz">>

\* ExtractTarget without the test of line 42.
ExtractTargetNoShift(members, output_dir) == output_dir

\* Lines 41-43: the directory the members are extracted into.
ExtractTarget(members, output_dir) ==
    IF CommonPath(members) = <<Basename(output_dir)>>
    THEN Dirname(output_dir)
    ELSE output_dir

\* package.extractall(dir): every member below dir, with the directories
\* leading to it.  ZipFile.extractall writes a stored link as a plain file.
extractall(f, tree, dir, zip) ==
    LET placed == [p \in {dir \o m : m \in DOMAIN tree} |->
                     LET k == tree[SubSeq(p, Len(dir) + 1, Len(p))]
                     IN  IF zip /\ k = "link" THEN "file" ELSE k]
        parents == [q \in AllAncestors(DOMAIN placed) |-> "dir"]
    IN  Merge(Merge(parents, f), placed)

\* extract_package(filename, output_dir): the file system afterwards, or the
\* exception raised.
extract_package(f, c, filename, output_dir) ==
    IF ~(IsTarName(filename) \/ IsZipName(filename))
    THEN [err |-> "unsupported package format", fs |-> f]
    ELSE IF filename \notin DOMAIN c
    THEN [err |-> "cannot open", fs |-> f]
    ELSE IF DOMAIN c[filename] = {}
    THEN [err |-> "ValueError", fs |-> f]     \* commonpath() of no paths
    ELSE
      LET dir == ExtractTarget(DOMAIN c[filename], output_dir)
          made == IF isdir(f, dir) THEN f ELSE makedirs(f, dir)
      IN  [err |-> "none",
           fs |-> extractall(made, c[filename], dir, ~IsTarName(filename))]

\* PackedTree with the members named from input_dir itself instead of from
\* its parent (arcname and base_dir dropped).
PackedTreeNoArcname(f, input_dir, zip) ==
    [m \in {SubSeq(p, Len(input_dir) + 1, Len(p)) : p \in Under(f, input_dir)} |->
       LET k == f[input_dir \o m]
       IN  IF zip /\ k = "link" THEN "file" ELSE k]

\* The members create_package writes: input_dir and all below it, named from
\* the base name of input_dir.  The zip writer follows links.
PackedTree(f, input_dir, zip) ==
    LET n == Len(input_dir) - 1
    IN  [m \in {SubSeq(p, n + 1, Len(p)) : p \in Under(f, input_dir)} |->
           LET k == f[Dirname(input_dir) \o m]
           IN  IF zip /\ k = "link" THEN "file" ELSE k]

\* create_package(filename, input_dir): the archive written, or the
\* exception raised.
create_package(f, filename, input_dir) ==
    IF IsTarGzName(filename)
    THEN [err |-> "none", tree |-> PackedTree(f, input_dir, FALSE)]
    ELSE IF IsZipName(filename)
    THEN [err |-> "none", tree |-> PackedTree(f, input_dir, TRUE)]
    ELSE [err |-> "unsupported package format", tree |-> << >>]

-----------------------------------------------------------------------------
(* Symbol Compliance Checker                                               *)

Labels == {"GLIBC", "GLIBCXX", "CXXABI"}

\* Lines 73-75: the ceiling of each label.
MaxVersion(label) ==
    CASE label = "GLIBC"   -> <<2, 17, 0>>
      [] label = "GLIBCXX" -> <<3, 4, 19>>
      [] label = "CXXABI"  -> <<1, 3, 7>>

Min(a, b) == IF a < b THEN a ELSE b

\* Python's v > w on lists of integers: decided by the first index where
\* they differ, and by length when one is a prefix of the other.
ListGreater(v, w) ==
    LET n == Min(Len(v), Len(w))
        diff == {k \in 1..n : v[k] # w[k]}
    IN  IF diff = {}
        THEN Len(v) > Len(w)
        ELSE LET d == CHOOSE k \in diff : \A j \in diff : k <= j
             IN  v[d] > w[d]

\* The lines of  nm | tr | grep @@<label>_ : the versioned symbols of the
\* label, in nm's order.  A symbol is [label, version], version being the
\* integers of its dotted version.
Grep(syms, label) == SelectSeq(syms, LAMBDA s : s.label = label)

\* Problematic with >= in place of >.
ProblematicOrEqual(version, max_version) ==
    ListGreater(version, max_version) \/ version = max_version

\* Line 68
Problematic(version, max_version) == ListGreater(version, max_version)

\* check_symbols(filename, label, max_version): TRUE when it raises.
check_symbols(syms, label, max_version) ==
    \E k \in 1..Len(Grep(syms, label)) :
        Problematic(Grep(syms, label)[k].version, max_version)

\* check_symbols_linux without the third call (line 75).
check_symbols_linux_two(syms) ==
    \/ check_symbols(syms, "GLIBC", MaxVersion("GLIBC"))
    \/ check_symbols(syms, "GLIBCXX", MaxVersion("GLIBCXX"))

\* check_symbols_linux(filename): TRUE when it raises.
check_symbols_linux(syms) ==
    \/ check_symbols(syms, "GLIBC", MaxVersion("GLIBC"))
    \/ check_symbols(syms, "GLIBCXX", MaxVersion("GLIBCXX"))
    \/ check_symbols(syms, "CXXABI", MaxVersion("CXXABI"))

-----------------------------------------------------------------------------
(* The values the variables of the other scenarios keep.                   *)

NoCfg == [stage |-> << >>, config |-> "Release", sign_file |-> FALSE]

MainIdle ==
    /\ OS = "linux"
    /\ cfg = NoCfg
    /\ pc = "exit"
    /\ log = << >>
    /\ binaries = << >>
    /\ i = 0
    /\ package_filename = Root
    /\ package_dir = Root
    /\ tbb_root = Root
    /\ ispc_executable = Root
    /\ nmOf = << >>

SymIdle ==
    /\ symNm = << >>
    /\ symLabel = "GLIBC"
    /\ symPos = 0
    /\ symStatus = "passed"

ArchIdle ==
    /\ aFile = Root
    /\ aOut = Root
    /\ aPc = "done"
    /\ aErr = [at |-> "none", msg |-> "none"]

EmptyFs == [p \in {Root} |-> "dir"]

-----------------------------------------------------------------------------
(* check_symbols, one line of its loop at a time                           *)

\* The longest nm listing considered.
MaxSyms == 2

Near(n) == {k \in {n - 1, n, n + 1} : k >= 0 /\ (n = 0 => k # n - 1)}

\* The versions a symbol of the label may carry: every triple around the
\* ceiling, two far ones, and versions of one and two components.
VersionsOf(label) ==
    LET c == MaxVersion(label)
    IN  {<<a, b, d>> : a \in Near(c[1]), b \in Near(c[2]), d \in Near(c[3])}
        \cup {<<c[1], c[2] - 1, 99>>, <<c[1] + 1, 0, 0>>}
        \cup {<<c[1], c[2]>>, <<c[1], c[2] + 1>>, <<c[1]>>, <<c[1] + 1>>}

\* What nm may list when label is looked for: symbols of the label, and
\* symbols of the other labels above their own ceilings.
SymbolsFor(label) ==
    {[label |-> label, version |-> v] : v \in VersionsOf(label)}
    \cup {[label |-> l, version |-> <<MaxVersion(l)[1] + 1, 0, 0>>] :
            l \in Labels \ {label}}

SeqsUpTo(S, n) == UNION {[1..k -> S] : k \in 0..n}

SymInit ==
    /\ symLabel \in Labels
    /\ symNm \in SeqsUpTo(SymbolsFor(symLabel), MaxSyms)
    /\ symPos = 0
    /\ symStatus = "running"
    /\ MainIdle /\ ArchIdle
    /\ fs = EmptyFs /\ fs0 = EmptyFs /\ content = << >> /\ content0 = << >>

\* Lines 63-69: one iteration of the loop over the lines of the pipe.
SymReadLine ==
    /\ symStatus = "running"
    /\ symPos < Len(Grep(symNm, symLabel))
    /\ symPos' = symPos + 1
    /\ symStatus' =
         IF Problematic(Grep(symNm, symLabel)[symPos + 1].version,
                        MaxVersion(symLabel))
         THEN "raised" ELSE "running"
    /\ UNCHANGED <<symNm, symLabel, fsVars, mainVars, archVars>>

\* Lines 62-63: the pipe is exhausted and check_symbols returns.
SymReturn ==
    /\ symStatus = "running"
    /\ symPos = Len(Grep(symNm, symLabel))
    /\ symStatus' = "passed"
    /\ UNCHANGED <<symNm, symLabel, symPos, fsVars, mainVars, archVars>>

SymNext == SymReadLine \/ SymReturn

SpecSymbols == SymInit /\ [][SymNext]_vars

-----------------------------------------------------------------------------
(* extract_package followed by create_package on one archive               *)

ArchNames ==
    {<<"a", "tar">>, <<"a", "tar", "gz">>, <<"a", "tgz">>, <<"a", "tar", "bz2">>,
     <<"a", "zip">>, <<"a", "txt">>}

ArchOutDirs == {<<N("work"), N("pkg")>>, <<N("work"), N("out")>>}

\* The members an archive may hold, with their kinds.
MemberKinds ==
    (<<N("pkg")>> :> "dir") @@
    (<<N("pkg"), N("bin")>> :> "dir") @@
    (<<N("pkg"), N("bin"), N("tool")>> :> "file") @@
    (<<N("pkg"), <<"lib", "so">> >> :> "link") @@
    (<<N("bin")>> :> "dir") @@
    (<<N("bin"), N("tool")>> :> "file") @@
    (<<N("readme")>> :> "file")

Trees == {[m \in S |-> MemberKinds[m]] : S \in SUBSET (DOMAIN MemberKinds)}

ArchInit ==
    /\ aFile \in {<<n>> : n \in ArchNames}
    /\ aOut \in ArchOutDirs
    /\ aPc = "extract"
    /\ aErr = [at |-> "none", msg |-> "none"]
    /\ \E pre \in {{}, {Dirname(aOut)}, {Dirname(aOut), aOut}} :
          fs = Merge(Merge(EmptyFs, [p \in pre |-> "dir"]),
                     [p \in {aFile} |-> "file"])
    /\ fs0 = fs
    /\ \E t \in Trees : content = [p \in {aFile} |-> t]
    /\ content0 = content
    /\ MainIdle /\ SymIdle

\* Lines 30-49, called on the archive.
ArchExtract ==
    /\ aPc = "extract"
    /\ LET r == extract_package(fs, content, aFile, aOut)
       IN  /\ fs' = r.fs
           /\ aPc' = IF r.err = "none" THEN "create" ELSE "raised"
           /\ aErr' = IF r.err = "none" THEN aErr
                      ELSE [at |-> "extract", msg |-> r.err]
    /\ UNCHANGED <<content, fs0, content0, aFile, aOut, mainVars, symVars>>

\* Lines 51-59, called with the same file name on the extracted directory.
ArchCreate ==
    /\ aPc = "create"
    /\ LET r == create_package(fs, aFile, aOut)
       IN  /\ content' = IF r.err = "none"
                         THEN [content EXCEPT ![aFile] = r.tree] ELSE content
           /\ aPc' = IF r.err = "none" THEN "done" ELSE "raised"
           /\ aErr' = IF r.err = "none" THEN aErr
                      ELSE [at |-> "create", msg |-> r.err]
    /\ UNCHANGED <<fs, fs0, content0, aFile, aOut, mainVars, symVars>>

ArchNext == ArchExtract \/ ArchCreate

SpecArchive == ArchInit /\ [][ArchNext]_vars

-----------------------------------------------------------------------------
(* Properties of check_symbols                                             *)

\* (a, b, c) <= ceiling in the lexicographic order of three integers.
LexLeq3(v, c) ==
    \/ v[1] < c[1]
    \/ v[1] = c[1] /\ v[2] < c[2]
    \/ v[1] = c[1] /\ v[2] = c[2] /\ v[3] <= c[3]

\* C1: over the three-component versions found for the label, check_symbols
\* passes exactly when every version is lexicographically <= the ceiling, and
\* the line it raises on is the first one above the ceiling; with the
\* ceiling (2,17,0), versions (2,17,0) and (2,16,99) pass and (2,17,1) and
\* (3,0,0) raise.
C1_LexicographicCeiling ==
    LET lines == Grep(symNm, symLabel)
        c == MaxVersion(symLabel)
        three == \A k \in 1..Len(lines) : Len(lines[k].version) = 3
    IN  /\ (symStatus # "running" /\ three) =>
             (symStatus = "passed" <=>
                \A k \in 1..Len(lines) : LexLeq3(lines[k].version, c))
        /\ (symStatus = "raised" /\ three) =>
             /\ ~LexLeq3(lines[symPos].version, c)
             /\ \A k \in 1..(symPos - 1) : LexLeq3(lines[k].version, c)
        /\ (symStatus # "running" /\ symLabel = "GLIBC" /\ Len(lines) = 1) =>
             /\ lines[1].version \in {<<2, 17, 0>>, <<2, 16, 99>>}
                  => symStatus = "passed"
             /\ lines[1].version \in {<<2, 17, 1>>, <<3, 0, 0>>}
                  => symStatus = "raised"

\* A listing whose first GLIBC version is just below the ceiling and whose
\* second is just above it: the check has raised on the second.
C1_Witness ==
    /\ symStatus = "raised"
    /\ symLabel = "GLIBC"
    /\ symPos = 2
    /\ Len(symNm) = 2
    /\ symNm[1] = [label |-> "GLIBC", version |-> <<2, 16, 99>>]
    /\ symNm[2] = [label |-> "GLIBC", version |-> <<2, 17, 1>>]

-----------------------------------------------------------------------------
(* Properties of the Archive Handler                                       *)

\* The archive was extracted without an exception.
Extracted ==
    \/ aPc \in {"create", "done"}
    \/ aPc = "raised" /\ aErr.at = "create"

\* Every member lies below the one top-level name base, and the members have
\* no longer prefix in common.
TopIs(members, base) ==
    /\ \A m \in members : m[1] = base
    /\ ~ \E n \in {m[2] : m \in {x \in members : Len(x) >= 2}} :
           \A m \in members : Len(m) >= 2 /\ m[2] = n

\* The member m of tree lies at path p, as the kind the archive gives it (a
\* zip's link becomes a plain file).
PlacedAt(tree, m, p) ==
    /\ p \in DOMAIN fs
    /\ \/ fs[p] = tree[m]
       \/ tree[m] = "link" /\ fs[p] = "file" /\ ~IsTarName(aFile)

Closure(S) == S \cup (AllAncestors(S) \ {Root})

\* C7: when the members' common prefix is the base name of output_dir they
\* are extracted into its parent, so that they lie at output_dir/... and
\* nothing lies at output_dir/basename/...; otherwise they are extracted
\* into output_dir, which then exists with its parents; nothing else changes.
C7_NoDoubleNesting ==
    Extracted =>
      LET tree == content0[aFile]
          members == DOMAIN tree
          parent == Dirname(aOut)
      IN  IF TopIs(members, Basename(aOut))
          THEN /\ \A m \in members : PlacedAt(tree, m, parent \o m)
               /\ \A m \in members : (aOut \o m) \notin DOMAIN fs
               /\ DOMAIN fs = DOMAIN fs0 \cup Ancestors(aOut)
                                \cup {parent \o m : m \in Closure(members)}
          ELSE /\ \A m \in members : PlacedAt(tree, m, aOut \o m)
               /\ \A d \in Ancestors(aOut) \cup {aOut} : isdir(fs, d)
               /\ DOMAIN fs = DOMAIN fs0 \cup Ancestors(aOut) \cup {aOut}
                                \cup {aOut \o m : m \in Closure(members)}

\* An archive whose members all lie below "pkg" has been extracted for the
\* output directory work/pkg, neither of which existed.
C7_Witness ==
    /\ aPc = "create"
    /\ aOut = <<N("work"), N("pkg")>>
    /\ N("work") \notin {p[1] : p \in (DOMAIN fs0) \ {Root}}
    /\ TopIs(DOMAIN content0[aFile], N("pkg"))
    /\ Cardinality(DOMAIN content0[aFile]) >= 3
    /\ <<N("work"), N("pkg"), N("bin"), N("tool")>> \in DOMAIN fs

\* The members written by create_package are those of the archive given,
\* with the directories leading to them: below the same top-level name when
\* extraction was shifted to the parent, and below the base name of the
\* output directory otherwise.
RoundTrip ==
    LET orig == DOMAIN content0[aFile]
        base == Basename(aOut)
    IN  DOMAIN content[aFile] =
          IF TopIs(orig, base)
          THEN Closure(orig)
          ELSE {<<base>>} \cup {<<base>> \o m : m \in Closure(orig)}

\* C6 as stated: for every suffix extract_package supports, create_package
\* with the same file name succeeds after the extraction and writes the same
\* member set.
C6_RoundTripAllSuffixes ==
    /\ (aPc = "raised" /\ (IsTarName(aFile) \/ IsZipName(aFile)))
         => aErr.at = "extract"
    /\ aPc = "done" => RoundTrip

\* C6, amended: for the suffixes .tar.gz and .zip the round trip succeeds
\* and keeps the member set; for every other suffix extract_package supports,
\* create_package raises 'unsupported package format'.
C6_RoundTripTarGzZip ==
    /\ (aPc = "raised" /\ (IsTarGzName(aFile) \/ IsZipName(aFile)))
         => aErr.at = "extract"
    /\ aPc = "done" => RoundTrip /\ (IsTarGzName(aFile) \/ IsZipName(aFile))
    /\ (Extracted /\ aPc # "create"
          /\ ~(IsTarGzName(aFile) \/ IsZipName(aFile)))
         => aPc = "raised" /\ aErr.msg = "unsupported package format"

\* A zip with a directory, a file and a link, none below the output
\* directory's name, has been extracted and packed again.
C6_Witness ==
    /\ aPc = "done"
    /\ IsZipName(aFile)
    /\ ~TopIs(DOMAIN content0[aFile], Basename(aOut))
    /\ {<<N("pkg"), <<"lib", "so">> >>, <<N("bin"), N("tool")>>}
          \subseteq DOMAIN content0[aFile]
    /\ DOMAIN content[aFile] # DOMAIN content0[aFile]

-----------------------------------------------------------------------------
(* main(): the run of the script, over a file system that outlives it      *)

\* Lines 17-18, as the pieces between the dots.
ISPC_VERSION == <<"1", "13", "0">>
TBB_VERSION == <<"2020", "2">>

Platforms == {"windows", "linux", "macos"}

\* The most stage arguments given on one command line.
MaxArgs == 2

\* Line 88: the stage arguments argparse accepts (nargs='*').
StageLists == SeqsUpTo({"build", "package"}, MaxArgs)

\* Line 90: the build configuration, left at its default.
Configs == {"Release"}

\* The test of the stage made on the first argument alone.
InStageFirst(name, stage) == Len(stage) > 0 /\ stage[1] = name

\* 'build' in cfg.stage, 'package' in cfg.stage (lines 105, 192).
InStage(name, stage) == \E k \in 1..Len(stage) : stage[k] = name

\* cfg.config.lower()
lower(config) ==
    CASE config = "Release" -> "release"
      [] config = "Debug" -> "debug"
      [] config = "RelWithDebInfo" -> "relwithdebinfo"

\* Lines 99, 102
deps_dir == <<N("deps")>>
build_dir(config) == <<N("build_" \o lower(config))>>

\* Lines 107-109: 'ispc-v1.13.0-' + the platform's name.
ispc_release(os) ==
    <<"ispc-v" \o ISPC_VERSION[1], ISPC_VERSION[2],
      ISPC_VERSION[3] \o "-" \o
        (CASE os = "windows" -> "windows"
           [] os = "linux" -> "linux"
           [] os = "macos" -> "macOS")>>

ispc_dir(os) == Join(deps_dir, ispc_release(os))

\* Lines 112-114: the file download_file writes, named after the URL.
ispc_filename(os) ==
    Join(deps_dir,
         ispc_release(os) \o (IF os = "windows" THEN <<"zip">> ELSE <<"tar", "gz">>))

\* Lines 120-122: 'tbb-2020.2-' + the platform's short name.
tbb_release(os) ==
    <<"tbb-" \o TBB_VERSION[1],
      TBB_VERSION[2] \o "-" \o
        (CASE os = "windows" -> "win"
           [] os = "linux" -> "lin"
           [] os = "macos" -> "mac")>>

tbb_dir(os) == Join(deps_dir, tbb_release(os))

\* Lines 125-127
tbb_filename(os) ==
    Join(deps_dir,
         tbb_release(os) \o (IF os = "windows" THEN <<"zip">> ELSE <<"tgz">>))

\* The layouts a downloaded release archive may have: everything below a
\* directory named like the release, or the payload at the top.
DepTrees(release, payload) ==
    { (<<release>> :> "dir") @@ (<<release, N(payload)>> :> "dir")
        @@ (<<release, N(payload), N("x")>> :> "file"),
      (<<N(payload)>> :> "dir") @@ (<<N(payload), N("x")>> :> "file") }

\* run() with the test of the exit status left out.
runUnchecked(rc) == "return"

\* Lines 20-22: run(command), the command having exited with rc.
run(rc) == IF rc # 0 THEN "raise" ELSE "return"

ExitCodes == {0, 1}

Ev(e, a, rc) == [ev |-> e, arg |-> a, rc |-> rc]

\* The archive files that still exist keep their members.
Kept(c, f) == [p \in {q \in DOMAIN c : q \in DOMAIN f} |-> c[p]]

\* Dependency set up without the test for the directory (lines 110, 123).
ProvisionAlways(f, c, dir, filename, tree, ok) ==
    IF ~ok
    THEN [err |-> "download failed", fs |-> f, content |-> c, downloaded |-> TRUE]
    ELSE LET f1 == Merge(f, [p \in {filename} |-> "file"])
             c1 == Merge(c, [p \in {filename} |-> tree])
             r == extract_package(f1, c1, filename, dir)
         IN  IF r.err # "none"
             THEN [err |-> r.err, fs |-> r.fs, content |-> c1, downloaded |-> TRUE]
             ELSE [err |-> "none", fs |-> Without(r.fs, {filename}),
                   content |-> c, downloaded |-> TRUE]

\* Lines 110-116 and 123-129: download, extract and remove the archive unless
\* the directory is there.  tree is what the server sends, ok whether
\* urlretrieve returns.
Provision(f, c, dir, filename, tree, ok) ==
    IF isdir(f, dir)
    THEN [err |-> "none", fs |-> f, content |-> c, downloaded |-> FALSE]
    ELSE IF ~ok
    THEN [err |-> "download failed", fs |-> f, content |-> c, downloaded |-> TRUE]
    ELSE LET f1 == Merge(f, [p \in {filename} |-> "file"])
             c1 == Merge(c, [p \in {filename} |-> tree])
             r == extract_package(f1, c1, filename, dir)
         IN  IF r.err # "none"
             THEN [err |-> r.err, fs |-> r.fs, content |-> c1, downloaded |-> TRUE]
             ELSE [err |-> "none", fs |-> Without(r.fs, {filename}),
                   content |-> c, downloaded |-> TRUE]

Init ==
    /\ OS \in Platforms
    /\ fs = EmptyFs /\ fs0 = EmptyFs
    /\ content = << >> /\ content0 = << >>
    /\ cfg = NoCfg
    /\ pc = "exit"
    /\ log = << >>
    /\ binaries = << >>
    /\ i = 0
    /\ package_filename = Root
    /\ package_dir = Root
    /\ tbb_root = Root
    /\ ispc_executable = Root
    /\ nmOf = << >>
    /\ SymIdle /\ ArchIdle

\* Where main goes once the build stage is over or skipped (line 192).
AfterBuild(stage) == IF InStage("package", stage) THEN "pkg_configure" ELSE "exit"

\* Where main goes first (line 105).
FirstStep(stage) == IF InStage("build", stage) THEN "ispc" ELSE AfterBuild(stage)

\* Lines 77-102: the script is started; the arguments are parsed and the
\* directories set.
Start ==
    /\ pc \in {"exit", "failed"}
    /\ \E stage \in StageLists, config \in Configs, sign \in BOOLEAN :
          /\ cfg' = [stage |-> stage, config |-> config, sign_file |-> sign]
          /\ pc' = FirstStep(stage)
    /\ fs' = IF isdir(fs, deps_dir) THEN fs ELSE makedirs(fs, deps_dir)
    /\ fs0' = fs
    /\ content0' = content
    /\ log' = << >>
    /\ binaries' = << >>
    /\ i' = 0
    /\ package_filename' = Root
    /\ package_dir' = Root
    /\ tbb_root' = Root
    /\ ispc_executable' = Root
    /\ nmOf' = << >>
    /\ UNCHANGED <<OS, content, symVars, archVars>>

\* An exception leaves main: nothing catches it, the interpreter prints it
\* and exits with a non-zero status.
Raised(l, msg) == Append(l, Ev("raise", <<N(msg)>>, 1))

\* Lines 106-117: set up ISPC.
SetUpISPC ==
    /\ pc = "ispc"
    /\ \E tree \in DepTrees(ispc_release(OS), "bin"), ok \in BOOLEAN :
         LET r == Provision(fs, content, ispc_dir(OS), ispc_filename(OS), tree, ok)
             l == IF r.downloaded
                  THEN Append(log, Ev("download", ispc_dir(OS), IF ok THEN 0 ELSE 1))
                  ELSE log
         IN  /\ fs' = r.fs
             /\ content' = r.content
             /\ IF r.err = "none"
                THEN /\ pc' = "tbb"
                     /\ log' = l
                     /\ ispc_executable' = Join(Join(ispc_dir(OS), N("bin")), N("ispc"))
                ELSE /\ pc' = "failed"
                     /\ log' = Raised(l, r.err)
                     /\ UNCHANGED ispc_executable
    /\ UNCHANGED <<OS, fs0, content0, cfg, binaries, i, package_filename,
                   package_dir, tbb_root, nmOf, symVars, archVars>>

\* Lines 119-130: set up TBB.
SetUpTBB ==
    /\ pc = "tbb"
    /\ \E tree \in DepTrees(tbb_release(OS), "tbb"), ok \in BOOLEAN :
         LET r == Provision(fs, content, tbb_dir(OS), tbb_filename(OS), tree, ok)
             l == IF r.downloaded
                  THEN Append(log, Ev("download", tbb_dir(OS), IF ok THEN 0 ELSE 1))
                  ELSE log
         IN  /\ fs' = r.fs
             /\ content' = r.content
             /\ IF r.err = "none"
                THEN /\ pc' = "clean"
                     /\ log' = l
                     /\ tbb_root' = Join(tbb_dir(OS), N("tbb"))
                ELSE /\ pc' = "failed"
                     /\ log' = Raised(l, r.err)
                     /\ UNCHANGED tbb_root
    /\ UNCHANGED <<OS, fs0, content0, cfg, binaries, i, package_filename,
                   package_dir, ispc_executable, nmOf, symVars, archVars>>

\* The build directory made without removing the one that is there.
FreshBuildDirKeeping(f, dir) == makedirs(f, dir)

\* Lines 133-135: the build directory after rmtree (if it is there) and mkdir.
FreshBuildDir(f, dir) ==
    Merge(IF isdir(f, dir) THEN rmtree(f, dir) ELSE f, [p \in {dir} |-> "dir"])

\* Lines 132-136: create a clean build directory and enter it.
CleanBuildDir ==
    /\ pc = "clean"
    /\ fs' = FreshBuildDir(fs, build_dir(cfg.config))
    /\ content' = Kept(content, fs')
    /\ log' = Append(log, Ev("mkdir", build_dir(cfg.config), 0))
    /\ pc' = "configure"
    /\ UNCHANGED <<OS, fs0, content0, cfg, binaries, i, package_filename,
                   package_dir, tbb_root, ispc_executable, nmOf, symVars, archVars>>

\* What cmake leaves in the build directory when it configures.
CacheFile(config) == Join(build_dir(config), <<"CMakeCache", "txt">>)

\* What the build leaves in the build directory.
LibraryFile(config) == Join(build_dir(config), <<"libOpenImageDenoise", "a">>)

\* Lines 138-181: configure.
Configure ==
    /\ pc = "configure"
    /\ \E rc \in ExitCodes :
         /\ IF run(rc) = "raise"
            THEN /\ pc' = "failed"
                 /\ log' = Raised(Append(log, Ev("configure", build_dir(cfg.config), rc)),
                                  "non-zero return value")
                 /\ fs' = fs
            ELSE /\ pc' = "build"
                 /\ log' = Append(log, Ev("configure", build_dir(cfg.config), rc))
                 /\ fs' = IF rc = 0
                          THEN Merge(fs, [p \in {CacheFile(cfg.config)} |-> "file"])
                          ELSE fs
    /\ UNCHANGED <<OS, content, fs0, content0, cfg, binaries, i, package_filename,
                   package_dir, tbb_root, ispc_executable, nmOf, symVars, archVars>>

\* Lines 183-189: build.
Build ==
    /\ pc = "build"
    /\ \E rc \in ExitCodes :
         /\ IF run(rc) = "raise"
            THEN /\ pc' = "failed"
                 /\ log' = Raised(Append(log, Ev("build", build_dir(cfg.config), rc)),
                                  "non-zero return value")
                 /\ fs' = fs
            ELSE /\ pc' = AfterBuild(cfg.stage)
                 /\ log' = Append(log, Ev("build", build_dir(cfg.config), rc))
                 /\ fs' = IF rc = 0
                          THEN Merge(fs, [p \in {LibraryFile(cfg.config)} |-> "file"])
                          ELSE fs
    /\ UNCHANGED <<OS, content, fs0, content0, cfg, binaries, i, package_filename,
                   package_dir, tbb_root, ispc_executable, nmOf, symVars, archVars>>

-----------------------------------------------------------------------------
(* The package stage                                                       *)

\* The name cpack gives the package, without the archive suffix.
PackageStem(os) == <<"oidn-1", "2", "0", "x86_64", os>>

\* The archive the package target writes into the build directory: a
\* gzip-compressed tar, or a zip on Windows.
PackageName(os) ==
    PackageStem(os) \o (IF os = "windows" THEN <<"zip">> ELSE <<"tar", "gz">>)

\* The members of the package: the programs, the library with its link, and
\* a file that is no binary, all below one directory named like the package.
PackageTree(os) ==
    LET top == <<PackageStem(os)>>
        bin == Append(top, N("bin"))
        lib == Append(top, N("lib"))
        common == (top :> "dir") @@ (bin :> "dir") @@ (lib :> "dir")
                    @@ (Append(top, <<"README", "md">>) :> "file")
    IN  CASE os = "linux" ->
               common @@ (Append(bin, N("oidn_denoise")) :> "file")
                 @@ (Append(lib, <<"libOpenImageDenoise", "so", "1", "2", "0">>) :> "file")
                 @@ (Append(lib, <<"libOpenImageDenoise", "so">>) :> "link")
          [] os = "macos" ->
               common @@ (Append(bin, N("oidn_denoise")) :> "file")
                 @@ (Append(lib, <<"libOpenImageDenoise", "1", "2", "0", "dylib">>) :> "file")
                 @@ (Append(lib, <<"libOpenImageDenoise", "dylib">>) :> "link")
          [] os = "windows" ->
               common @@ (Append(bin, <<"oidn_denoise", "exe">>) :> "file")
                 @@ (Append(bin, <<"OpenImageDenoise", "dll">>) :> "file")
                 @@ (Append(lib, <<"OpenImageDenoise", "lib">>) :> "file")

\* The versioned symbols a built binary may need.
NmListings ==
    { <<[label |-> "GLIBC", version |-> <<2, 2, 5>>],
        [label |-> "GLIBCXX", version |-> <<3, 4, 19>>],
        [label |-> "GLIBC", version |-> <<2, 17>>],
        [label |-> "CXXABI", version |-> <<1, 3>>]>>,
      <<[label |-> "GLIBC", version |-> <<2, 14>>],
        [label |-> "GLIBC", version |-> <<2, 18>>]>>,
      <<[label |-> "GLIBCXX", version |-> <<3, 4, 20>>]>>,
      <<[label |-> "GLIBC", version |-> <<2, 4>>],
        [label |-> "CXXABI", version |-> <<1, 3, 8>>]>> }

\* The regular files of the package, by name.
BinaryNames(os) ==
    {Basename(m) : m \in {x \in DOMAIN PackageTree(os) : PackageTree(os)[x] = "file"}}

\* The listings nm will give: of the built binaries on Linux (nm is run on
\* no other platform).
NmChoices(os) ==
    IF os = "linux"
    THEN [BinaryNames(os) -> NmListings]
    ELSE {[b \in BinaryNames(os) |-> << >>]}

\* glob(os.path.join(build_dir, 'oidn-*')): the entries of the build
\* directory whose name begins with oidn-.
OidnGlob(f, dir) ==
    {p \in DOMAIN f : Len(p) > 0 /\ Dirname(p) = dir /\ Basename(p)[1] \in {"oidn-1"}}

\* re.sub(r'\.(tar(\..*)?|zip)$', '', filename): the string cut at the
\* first ".tar" that ends it or is followed by a dot, or at a final ".zip".
StripSuffix(filename) ==
    LET places == UNION {{<<j, k>> : k \in 2..Len(filename[j])} :
                           j \in 1..Len(filename)}
        hits == {jk \in places :
                      \/ /\ filename[jk[1]][jk[2]] = "tar"
                         /\ (jk[2] < Len(filename[jk[1]]) \/ jk[1] = Len(filename))
                      \/ /\ filename[jk[1]][jk[2]] = "zip"
                         /\ jk[1] = Len(filename)
                         /\ jk[2] = Len(filename[jk[1]])}
    IN  IF hits = {} THEN filename
        ELSE LET h == CHOOSE x \in hits : \A y \in hits :
                         x[1] < y[1] \/ (x[1] = y[1] /\ x[2] <= y[2])
             IN  Append(SubSeq(filename, 1, h[1] - 1),
                        SubSeq(filename[h[1]], 1, h[2] - 1))

\* glob(os.path.join(package_dir, 'bin', '*'))
BinGlob(f, dir) == {p \in DOMAIN f : Len(p) > 0 /\ Dirname(p) = Join(dir, N("bin"))}

\* Lines 211-214: '*.so*' in lib on Linux, '*.dylib' in lib on macOS.
LibGlob(f, dir, os) ==
    {p \in DOMAIN f :
       /\ Len(p) > 0
       /\ Dirname(p) = Join(dir, N("lib"))
       /\ \/ os = "linux" /\ \E k \in 2..Len(Basename(p)) : Basename(p)[k] = "so"
          \/ /\ os = "macos"
             /\ Len(Basename(p)) >= 2
             /\ Basename(p)[Len(Basename(p))] = "dylib"}

\* Line 215: the filter on the globbed paths.
IsBinary(f, p) == isfile(f, p) /\ ~islink(f, p)

\* The orders in which a glob may list a set of paths.
Orders(S) ==
    {q \in [1..Cardinality(S) -> S] : \A x \in S : \E k \in 1..Cardinality(S) : q[k] = x}

\* Lines 209-215: the lists main may get.
BinaryLists(f, dir, os) ==
    {b \o l : b \in Orders({p \in BinGlob(f, dir) : IsBinary(f, p)}),
              l \in Orders({p \in LibGlob(f, dir, os) : IsBinary(f, p)})}

\* Lines 192-196: enter the build directory and configure for packaging.
PkgConfigure ==
    /\ pc = "pkg_configure"
    /\ IF ~isdir(fs, build_dir(cfg.config))
       THEN /\ pc' = "failed"
            /\ log' = Raised(log, "FileNotFoundError")
            /\ fs' = fs
       ELSE \E rc \in ExitCodes :
              IF run(rc) = "raise"
              THEN /\ pc' = "failed"
                   /\ log' = Raised(Append(log, Ev("pkg_configure", build_dir(cfg.config), rc)),
                                    "non-zero return value")
                   /\ fs' = fs
              ELSE /\ pc' = "pkg_build"
                   /\ log' = Append(log, Ev("pkg_configure", build_dir(cfg.config), rc))
                   /\ fs' = IF rc = 0
                            THEN Merge(fs, [p \in {CacheFile(cfg.config)} |-> "file"])
                            ELSE fs
    /\ UNCHANGED <<OS, content, fs0, content0, cfg, binaries, i, package_filename,
                   package_dir, tbb_root, ispc_executable, nmOf, symVars, archVars>>

\* Lines 198-202: build the package target, which writes the archive.
PkgBuild ==
    /\ pc = "pkg_build"
    /\ \E rc \in ExitCodes :
         LET file == Join(build_dir(cfg.config), PackageName(OS))
         IN  IF run(rc) = "raise"
             THEN /\ pc' = "failed"
                  /\ log' = Raised(Append(log, Ev("pkg_build", build_dir(cfg.config), rc)),
                                   "non-zero return value")
                  /\ UNCHANGED <<fs, content, nmOf>>
             ELSE /\ pc' = "pkg_extract"
                  /\ log' = Append(log, Ev("pkg_build", build_dir(cfg.config), rc))
                  /\ IF rc = 0
                     THEN /\ fs' = Merge(fs, [p \in {file} |-> "file"])
                          /\ content' = Merge(content, [p \in {file} |-> PackageTree(OS)])
                          /\ nmOf' \in NmChoices(OS)
                     ELSE UNCHANGED <<fs, content, nmOf>>
    /\ UNCHANGED <<OS, fs0, content0, cfg, binaries, i, package_filename,
                   package_dir, tbb_root, ispc_executable, symVars, archVars>>

\* AfterCheck with lines 229-230 outside the test of sign_file.
AfterCheckRepacks(sign_file, bins) ==
    IF sign_file /\ bins # << >> THEN "sign" ELSE "repack"

\* Where main goes after the symbol checks (lines 223-224, 232).
AfterCheck(sign_file, bins) ==
    IF sign_file THEN (IF bins = << >> THEN "repack" ELSE "sign") ELSE "delete"

\* Where main goes once it has the list of binaries (line 218).
AfterExtract(os, sign_file, bins) ==
    IF os = "linux" /\ bins # << >> THEN "check" ELSE AfterCheck(sign_file, bins)

\* Lines 204-215: find the package, extract it, list the binaries.
PkgExtract ==
    /\ pc = "pkg_extract"
    /\ IF OidnGlob(fs, build_dir(cfg.config)) = {}
       THEN /\ pc' = "failed"
            /\ log' = Raised(log, "IndexError")
            /\ UNCHANGED <<fs, binaries, i, package_filename, package_dir>>
       ELSE \E file \in OidnGlob(fs, build_dir(cfg.config)) :
              LET r == extract_package(fs, content, file, build_dir(cfg.config))
              IN  /\ package_filename' = file
                  /\ fs' = r.fs
                  /\ IF r.err # "none"
                     THEN /\ pc' = "failed"
                          /\ log' = Raised(log, r.err)
                          /\ UNCHANGED <<binaries, i, package_dir>>
                     ELSE /\ package_dir' = StripSuffix(file)
                          /\ binaries' \in BinaryLists(r.fs, package_dir', OS)
                          /\ i' = 1
                          /\ log' = Append(log, Ev("extract", file, 0))
                          /\ pc' = AfterExtract(OS, cfg.sign_file, binaries')
    /\ UNCHANGED <<OS, content, fs0, content0, cfg, tbb_root, ispc_executable,
                   nmOf, symVars, archVars>>

\* Lines 217-220: one iteration of the loop that checks the symbols.
CheckSymbols ==
    /\ pc = "check"
    /\ IF check_symbols_linux(nmOf[Basename(binaries[i])])
       THEN /\ pc' = "failed"
            /\ log' = Raised(Append(log, Ev("check", binaries[i], 1)), "problematic symbol")
            /\ i' = i
       ELSE /\ log' = Append(log, Ev("check", binaries[i], 0))
            /\ IF i < Len(binaries)
               THEN i' = i + 1 /\ pc' = pc
               ELSE i' = 1 /\ pc' = AfterCheck(cfg.sign_file, binaries)
    /\ UNCHANGED <<OS, fs, content, fs0, content0, cfg, binaries, package_filename,
                   package_dir, tbb_root, ispc_executable, nmOf, symVars, archVars>>

\* Lines 225-226: one iteration of the loop that signs the binaries.
Sign ==
    /\ pc = "sign"
    /\ \E rc \in ExitCodes :
         IF run(rc) = "raise"
         THEN /\ pc' = "failed"
              /\ log' = Raised(Append(log, Ev("sign", binaries[i], rc)),
                               "non-zero return value")
              /\ UNCHANGED <<fs, i>>
         ELSE /\ log' = Append(log, Ev("sign", binaries[i], rc))
              /\ fs' = IF rc = 0 THEN [fs EXCEPT ![binaries[i]] = "signed"] ELSE fs
              /\ IF i < Len(binaries)
                 THEN i' = i + 1 /\ pc' = pc
                 ELSE i' = 1 /\ pc' = "repack"
    /\ UNCHANGED <<OS, content, fs0, content0, cfg, binaries, package_filename,
                   package_dir, tbb_root, ispc_executable, nmOf, symVars, archVars>>

\* Lines 228-230: remove the package and create it again from the directory.
Repack ==
    /\ pc = "repack"
    /\ LET f1 == Without(fs, {package_filename})
           r == create_package(f1, package_filename, package_dir)
           l == Append(log, Ev("remove", package_filename, 0))
       IN  IF r.err # "none"
           THEN /\ pc' = "failed"
                /\ log' = Raised(l, r.err)
                /\ fs' = f1
                /\ content' = Kept(content, f1)
           ELSE /\ pc' = "delete"
                /\ log' = Append(l, Ev("create", package_filename, 0))
                /\ fs' = Merge(f1, [p \in {package_filename} |-> "file"])
                /\ content' = Merge(content, [p \in {package_filename} |-> r.tree])
    /\ UNCHANGED <<OS, fs0, content0, cfg, binaries, i, package_filename,
                   package_dir, tbb_root, ispc_executable, nmOf, symVars, archVars>>

\* Lines 232-233: delete the extracted package.
DeletePackageDir ==
    /\ pc = "delete"
    /\ IF ~isdir(fs, package_dir)
       THEN /\ pc' = "failed"
            /\ log' = Raised(log, "rmtree failed")
            /\ fs' = fs
       ELSE /\ pc' = "exit"
            /\ log' = Append(log, Ev("rmtree", package_dir, 0))
            /\ fs' = rmtree(fs, package_dir)
    /\ content' = Kept(content, fs')
    /\ UNCHANGED <<OS, fs0, content0, cfg, binaries, i, package_filename,
                   package_dir, tbb_root, ispc_executable, nmOf, symVars, archVars>>

Next ==
    \/ Start
    \/ SetUpISPC
    \/ SetUpTBB
    \/ CleanBuildDir
    \/ Configure
    \/ Build
    \/ PkgConfigure
    \/ PkgBuild
    \/ PkgExtract
    \/ CheckSymbols
    \/ Sign
    \/ Repack
    \/ DeletePackageDir

Spec == Init /\ [][Next]_vars

-----------------------------------------------------------------------------
(* Properties of main()                                                    *)

\* The stage is named among the arguments of the run.
Requested(name) == name \in {cfg.stage[k] : k \in DOMAIN cfg.stage}

Events(e) == {k \in 1..Len(log) : log[k].ev = e}

Happened(e, a, rc) == \E k \in 1..Len(log) : log[k] = Ev(e, a, rc)

BuildEvents == {"download", "mkdir", "configure", "build"}
PackageEvents ==
    {"pkg_configure", "pkg_build", "extract", "check", "sign", "remove",
     "create", "rmtree"}
Commands == {"configure", "build", "pkg_configure", "pkg_build", "sign"}

\* The run is over: main returned, or an exception ended it.
Ended == pc \in {"exit", "failed"}

\* This run has extracted the package.
ExtractedPackage == Events("extract") # {}

Downloaded(dir) == \E k \in Events("download") : log[k].arg = dir

\* C2, in every state: a dependency is downloaded, and once only, exactly
\* when its directory did not exist when the run began, and the path handed
\* to cmake is the same whether it was downloaded or found.
C2_State ==
    /\ (Requested("build") /\ pc # "ispc") =>
         (Downloaded(ispc_dir(OS)) <=> ~isdir(fs0, ispc_dir(OS)))
    /\ (Requested("build") /\ pc \notin {"ispc", "tbb"}
          /\ ispc_executable # Root) =>
         (Downloaded(tbb_dir(OS)) <=> ~isdir(fs0, tbb_dir(OS)))
    /\ \A j, k \in Events("download") : log[j].arg = log[k].arg => j = k
    /\ ispc_executable # Root =>
         ispc_executable = <<N("deps"), ispc_release(OS), N("bin"), N("ispc")>>
    /\ tbb_root # Root => tbb_root = <<N("deps"), tbb_release(OS), N("tbb")>>

\* C2, in every step: a dependency directory that exists is not downloaded
\* again and stays, whatever the later runs do.
C2_Step ==
    \A dir \in {ispc_dir(OS), tbb_dir(OS)} :
       isdir(fs, dir) =>
         /\ isdir(fs', dir)
         /\ \A k \in 1..Len(log') :
               (log'[k].ev = "download" /\ log'[k].arg = dir)
                 => (k <= Len(log) /\ log[k] = log'[k])

\* C2: dependency provisioning is idempotent.
C2_ProvisioningIdempotent == []C2_State /\ [][C2_Step]_vars

\* A build run that found both dependency directories in place has set up
\* both without a download.
C2_Witness ==
    /\ pc = "clean"
    /\ isdir(fs0, ispc_dir(OS))
    /\ isdir(fs0, tbb_dir(OS))
    /\ log = << >>
    /\ tbb_root # Root

\* C3: a command that exits with a non-zero status, a symbol check that
\* raises or an archive operation that raises ends the run on the spot:
\* the exception is the last thing the run does, no command is run after
\* it, no command is run twice, and after a failure in the build stage no
\* package-stage step has run.
C3_FailureIsFatal ==
    /\ \A k \in 1..Len(log) :
          /\ (log[k].rc # 0 /\ log[k].ev # "raise") =>
                (k + 1 = Len(log) /\ log[k + 1].ev = "raise")
          /\ log[k].ev = "raise" => (k = Len(log) /\ pc = "failed")
          /\ (log[k].rc # 0 /\ log[k].ev \in BuildEvents) =>
                \A j \in 1..Len(log) : log[j].ev \notin PackageEvents
    /\ pc = "failed" => (Len(log) > 0 /\ log[Len(log)].ev = "raise")
    /\ \A j, k \in 1..Len(log) :
          (log[j].ev \in Commands /\ log[j].ev = log[k].ev
             /\ log[j].arg = log[k].arg) => j = k

\* A run asked for both stages has ended on a failed build command.
C3_Witness ==
    /\ pc = "failed"
    /\ Requested("package")
    /\ \E k \in Events("build") : log[k].rc = 1

\* The run got as far as signing: the package was extracted and no symbol
\* check raised.
ReachedSigning ==
    /\ ExtractedPackage
    /\ \A k \in Events("check") : log[k].rc = 0

\* C4 as stated: when the packaging stage of a run that extracted the
\* package ends, the extracted directory is gone, whether no signing tool
\* was configured, every signing succeeded or a signing failed.
C4_RemovedWhateverSigningDid ==
    (Ended /\ ReachedSigning) => package_dir \notin DOMAIN fs

\* C4, amended: at the end of a run that extracted the package the
\* extracted directory is gone when main returned (no signing tool, or every
\* signing succeeded), and it is still there exactly when a signing
\* command or a symbol check failed, which ends the run before line 233.
C4_RemovedUnlessAborted ==
    (Ended /\ ExtractedPackage) =>
      /\ pc = "exit" => Under(fs, package_dir) = {}
      /\ isdir(fs, package_dir) <=>
            \E k \in Events("sign") \cup Events("check") : log[k].rc # 0
      /\ pc = "exit" <=> ~isdir(fs, package_dir)

\* A run with a signing tool has signed both binaries, repacked and
\* returned.
C4_Witness ==
    /\ pc = "exit"
    /\ ExtractedPackage
    /\ cfg.sign_file
    /\ Cardinality(Events("sign")) = 2
    /\ package_dir # Root
    /\ package_dir \notin DOMAIN fs

\* A symbol of the listing is above the ceiling of its label.
AboveCeiling(syms) ==
    \E k \in 1..Len(syms) : ListGreater(syms[k].version, MaxVersion(syms[k].label))

PackageFile == Join(build_dir(cfg.config), PackageName(OS))

\* C5: on Linux every binary found has passed the check against the three
\* ceilings before the first signing command, and when a binary holds a
\* symbol above its ceiling the run stops in the checks: nothing is signed,
\* and the package archive is neither removed nor written again.
C5_SymbolsBeforeSigning ==
    OS = "linux" =>
      /\ \A k \in Events("sign") : \A n \in 1..Len(binaries) :
            \E j \in 1..(k - 1) : log[j] = Ev("check", binaries[n], 0)
      /\ \A j \in Events("check") :
            log[j].rc = 0 => ~AboveCeiling(nmOf[Basename(log[j].arg)])
      /\ (ExtractedPackage
            /\ \E n \in 1..Len(binaries) : AboveCeiling(nmOf[Basename(binaries[n])])) =>
            /\ pc \in {"check", "failed"}
            /\ Events("sign") \cup Events("remove") \cup Events("create") = {}
            /\ isfile(fs, PackageFile)
            /\ content[PackageFile] = PackageTree(OS)
            /\ \A p \in DOMAIN fs : fs[p] # "signed"

\* On Linux, with a signing tool set, the first binary passed and the check
\* of the second raised.
C5_Witness ==
    /\ OS = "linux"
    /\ pc = "failed"
    /\ cfg.sign_file
    /\ Len(binaries) = 2
    /\ Happened("check", binaries[1], 0)
    /\ Happened("check", binaries[2], 1)

\* The name of an extracted file inside the package.
Member(p) == SubSeq(p, Len(build_dir(cfg.config)) + 1, Len(p))

\* C8: the signing tool is run at most once per binary found, and once on
\* each when main returns; the package is removed only after every binary
\* was signed with success, and from then on an archive of the same name
\* holds the extracted directory with the signed binaries; without a
\* signing tool nothing is signed and the package is never removed or
\* written again.
C8_SignAndRepack ==
    /\ \A j, k \in Events("sign") : log[j].arg = log[k].arg => j = k
    /\ \A k \in Events("sign") :
          cfg.sign_file /\ \E n \in 1..Len(binaries) : binaries[n] = log[k].arg
    /\ (pc = "exit" /\ cfg.sign_file /\ ExtractedPackage) =>
          \A n \in 1..Len(binaries) : Happened("sign", binaries[n], 0)
    /\ \A k \in Events("remove") :
          /\ log[k].arg = package_filename
          /\ \A n \in 1..Len(binaries) :
                \E j \in 1..(k - 1) : log[j] = Ev("sign", binaries[n], 0)
    /\ Events("remove") # {} =>
          /\ Happened("create", package_filename, 0)
          /\ isfile(fs, package_filename)
          /\ DOMAIN content[package_filename] = DOMAIN PackageTree(OS)
          /\ \A n \in 1..Len(binaries) :
                content[package_filename][Member(binaries[n])] = "signed"
    /\ (~cfg.sign_file /\ Happened("pkg_build", build_dir(cfg.config), 0)) =>
          /\ Events("sign") \cup Events("remove") \cup Events("create") = {}
          /\ isfile(fs, PackageFile)
          /\ content[PackageFile] = PackageTree(OS)

\* Both binaries were signed, the package was removed and created again,
\* and main returned.
C8_Witness ==
    /\ pc = "exit"
    /\ cfg.sign_file
    /\ Len(binaries) = 2
    /\ Events("remove") # {}
    /\ Events("create") # {}

\* C9: when the configure command of the build stage runs, the build
\* directory exists and is empty, whatever it held before; the build
\* command runs on what that configure left and nothing else.
C9_CleanBuild ==
    /\ pc = "configure" => Under(fs, build_dir(cfg.config)) = {build_dir(cfg.config)}
    /\ pc = "build" =>
          /\ isdir(fs, build_dir(cfg.config))
          /\ Under(fs, build_dir(cfg.config))
                \subseteq {build_dir(cfg.config), CacheFile(cfg.config)}
    /\ \A k \in Events("configure") \cup Events("build") :
          \E j \in 1..(k - 1) : log[j] = Ev("mkdir", build_dir(cfg.config), 0)

\* The configure command is about to run in a build directory that held a
\* cache, a library and more when the run began.
C9_Witness ==
    /\ pc = "configure"
    /\ Cardinality(Under(fs0, build_dir(cfg.config))) >= 4

\* C10: a stage runs exactly when its name is among the arguments, and every
\* step of the build stage comes before every step of the package stage,
\* whatever the order of the arguments and however often they are given.
C10_StageSelection ==
    /\ \A k \in 1..Len(log) :
          /\ log[k].ev \in BuildEvents => Requested("build")
          /\ log[k].ev \in PackageEvents =>
                /\ Requested("package")
                /\ Requested("build") =>
                      \E j \in 1..(k - 1) : log[j] = Ev("build", build_dir(cfg.config), 0)
                /\ \A j \in (k + 1)..Len(log) : log[j].ev \notin BuildEvents
    /\ pc \in {"ispc", "tbb", "clean", "configure", "build"}
          => Requested("build")
    /\ pc \in {"pkg_configure", "pkg_build", "pkg_extract", "check", "sign",
               "repack", "delete"}
          => Requested("package")
    /\ (pc = "exit" /\ Requested("build")) =>
          /\ Happened("mkdir", build_dir(cfg.config), 0)
          /\ Happened("configure", build_dir(cfg.config), 0)
          /\ Happened("build", build_dir(cfg.config), 0)
    /\ (pc = "exit" /\ Requested("package")) =>
          /\ Happened("pkg_configure", build_dir(cfg.config), 0)
          /\ Happened("pkg_build", build_dir(cfg.config), 0)
          /\ Events("rmtree") # {}
    /\ (~Requested("build") /\ ~Requested("package")) =>
          (pc = "exit" /\ log = << >>)

\* The arguments were "package build": both stages ran, and main returned.
C10_Witness ==
    /\ pc = "exit"
    /\ cfg.stage = <<"package", "build">>
    /\ Events("build") # {}
    /\ Events("rmtree") # {}

====
